---- MODULE Spec2Model ----
(***************************************************************************)
(* tabasco - time based source control.                                    *)
(*                                                                         *)
(* A model of Monitor (the change detector and the snapshot store), of SC  *)
(* (the commit resolver, log, apply and remove), of Manager (the registry  *)
(* of monitored directories) and of Daemon (the polling loop) of           *)
(* src/tabasco.py, acting on one working directory.  File names and        *)
(* checksums are strings, modelled as sequences of one-character strings;  *)
(* a directory is a function from entry names to the kind of the entry     *)
(* ("none" when absent).                                                   *)
(***************************************************************************)
EXTENDS Integers, Sequences, FiniteSets, TLC

(***************************************************************************)
(* Bounds of the model.                                                    *)
(***************************************************************************)
\* the checks of Spec are run at the times 0..MaxTime, counted in ticks
MaxTime == 1
\* the checks of SpecLog are run at the times 0..MaxLogTime
MaxLogTime == 5
\* ticks in one second: datetime is finer than the second of a version name
TicksPerSecond == 2
\* Monitor.frequency is one of 0..MaxFrequency seconds
MaxFrequency == 1
\* the checks of SpecWritten are run at the times 0..MaxShortTime
MaxShortTime == 2
\* the polling ticks of SpecPair fall on the seconds 0..MaxPairSecond
MaxPairSecond == 2

(***************************************************************************)
(* Strings.                                                                *)
(***************************************************************************)
\* code points of the characters the model uses
Ord == [c \in {"2", "A", "H", "W", "Z"} |->
          CASE c = "2" -> 50 [] c = "A" -> 65 [] c = "H" -> 72 [] c = "W" -> 87
            [] c = "Z" -> 90]

\* str.startswith
StartsWith(s, p) == Len(p) <= Len(s) /\ SubSeq(s, 1, Len(p)) = p

\* the `in` operator on strings: sub occurs somewhere in s
Contains(s, sub) ==
    \E i \in 1..(Len(s) + 1) :
        i + Len(sub) - 1 <= Len(s) /\ SubSeq(s, i, i + Len(sub) - 1) = sub

\* s < t for Python strings: lexicographic by code point
RECURSIVE StrLess(_, _)
StrLess(s, t) ==
    IF t = << >> THEN FALSE
    ELSE IF s = << >> THEN TRUE
    ELSE IF Ord[Head(s)] < Ord[Head(t)] THEN TRUE
    ELSE IF Ord[Head(s)] > Ord[Head(t)] THEN FALSE
    ELSE StrLess(Tail(s), Tail(t))

\* one insertion of the sort: x goes before the first element greater than it
RECURSIVE InsertSorted(_, _)
InsertSorted(x, seq) ==
    IF seq = << >> THEN <<x>>
    ELSE IF StrLess(x, Head(seq)) THEN <<x>> \o seq
    ELSE <<Head(seq)>> \o InsertSorted(x, Tail(seq))

\* sorted(list of strings)
RECURSIVE sorted(_)
sorted(seq) ==
    IF seq = << >> THEN << >> ELSE InsertSorted(Head(seq), sorted(Tail(seq)))

\* list.index: the position of the first occurrence of x
index(seq, x) ==
    CHOOSE i \in 1..Len(seq) : seq[i] = x /\ \A j \in 1..(i - 1) : seq[j] # x

(***************************************************************************)
(* The inputs.                                                             *)
(***************************************************************************)
\* the metadata directory, ".tbsc"
MetaDir == <<".", "t", "b", "s", "c">>

\* the entries a user creates at the top of the working directory: a file, a
\* hidden directory, and a file whose name holds ".tbsc"
Creatable ==
    { << <<"F">>, "file" >>,
      << <<".", "h">>, "dir" >>,
      << <<"a", ".", "t", "b", "s", "c">>, "file" >> }

UserNames == { e[1] : e \in Creatable }

\* the files a user creates in the working directory whose checksum is
\* computed: a file and a hidden file
HashedFiles ==
    { << <<"F">>, "file" >>,
      << <<".", "f">>, "file" >> }

HashedNames == { e[1] : e \in HashedFiles }

\* the file a user creates in the working directory the daemon watches
DaemonFiles == { << <<"F">>, "file" >> }

DaemonNames == { e[1] : e \in DaemonFiles }

\* the entries a user creates in the working directory on which a check and
\* an apply meet: two files and a hidden directory
PairFiles ==
    { << <<"F">>, "file" >>,
      << <<"G">>, "file" >>,
      << <<".", "h">>, "dir" >> }

PairNames == { e[1] : e \in PairFiles }
AllNames == UserNames \cup HashedNames \cup PairNames \cup {MetaDir}

\* the checksums a check is run with
Checksums == { <<"H">>, <<"H", "2">>, <<"W">> }

\* the commit strings given to apply and remove
Prefixes == { << >>, <<"A">>, <<"H">>, <<"H", "2">>, <<"H", "A">>, <<"W">>, <<"Z">> }

\* the paths given to Manager: two spellings of the working directory, a
\* file, and a path where nothing is
Paths == { "temp", "/w/temp", "notes.txt", "gone" }

\* the dates given to Manager.monitor
Dates == {0}

Times == 0..MaxTime
LogTimes == 0..MaxLogTime
ShortTimes == 0..MaxShortTime
\* the times of the polling ticks of SpecPair: whole seconds
PairTimes == { second * TicksPerSecond : second \in 0..MaxPairSecond }
Frequencies == 0..MaxFrequency

\* a shelf key that is not there
NoChecksum == << >>
NoTime == -1
NoName == -1

EmptyDir == [n \in AllNames |-> "none"]
EmptyShelf == [checksum |-> NoChecksum, time |-> NoTime, name |-> NoName]

VARIABLES
    frequency,  \* Monitor.frequency, in seconds
    tree,       \* the working directory: entry name -> "none" | "file" | "dir"
    versions,   \* the versions shelf: version name -> record
    last,       \* the last shelf
    snapshots,  \* the version directories under .tbsc: version name -> directory
    committed,  \* history: the working directory as a commit of that name found it
    mpc,        \* where Monitor.run is: "idle" | "backup" | "commit"
    cur,        \* the (now, checksum, name) of the run in progress
    mtodo,      \* the entries _commit has still to visit
    spc,        \* where SC.apply is: "idle" | "clear" | "copy"
    target,     \* the version name apply resolved
    stodo,      \* the entries apply has still to visit
    result,     \* how the last operation ended
    written,    \* history: the records the commits stored, less those removed
    removed,    \* history: a record was removed after the last commit
    pair,       \* history: the check and the apply that meet on the directory
    is_debug,   \* Daemon.is_debug
    stop_file,  \* the stop file of the daemon exists
    db,         \* the shelf of Manager: str(directory) -> {'time': date}
    dpc,        \* where Daemon.start is: "off" | "test" | "cycle"
    dtodo,      \* the keys the for loop of Daemon.start has still to visit
    ran,        \* history: the keys Monitor.run was called for in this cycle
    started,    \* history: how start was called, and on which stop file
    dpc2,       \* where the Daemon.start of a second process is
    dtodo2,     \* the keys the for loop of the second process has still to visit
    asked       \* history: what became of a stop() called on the running loop

\* the state of Monitor and SC
mvars == <<frequency, tree, versions, last, snapshots, committed,
           mpc, cur, mtodo, spc, target, stodo, result>>
\* the histories of the version log
hvars == <<written, removed, pair>>
\* the state of Daemon and Manager
dvars == <<is_debug, stop_file, db, dpc, dtodo, ran, started>>

\* the state of a second process that runs Daemon.start
xvars == <<dpc2, dtodo2, asked>>

vars == <<mvars, hvars, dvars, xvars>>

(***************************************************************************)
(* Directories.                                                            *)
(***************************************************************************)
\* os.listdir
listdir(dir) == { n \in DOMAIN dir : dir[n] # "none" }

\* a name that glob's '*' does not match: it starts with a dot
IsHidden(n) == Len(n) > 0 /\ Head(n) = "."

\* no check and no apply have met yet: the user is still at work
NoPair == [mode |-> "setup", run |-> "no", apply |-> "no", taken |-> NoName,
           before |-> EmptyDir, applied |-> EmptyDir]

\* the tuple a run keeps when no run is in progress
NoRun == [now |-> NoTime, checksum |-> NoChecksum, name |-> NoName]

(***************************************************************************)
(* Monitor.                                                                *)
(***************************************************************************)
\* now.strftime("%Y.%m.%d - %H.%M.%S"): the time cut to the second
VersionName(now) == now \div TicksPerSecond

\* _should_backup with `or` where the code has `and`
should_backup_or(now, checksum) ==
    IF last.checksum = NoChecksum /\ last.time = NoTime
    THEN TRUE
    ELSE LET is_old == (now - last.time) >= frequency * TicksPerSecond
             is_outdated == checksum # last.checksum
         IN  is_old \/ is_outdated

\* _should_backup that does not look at the time
should_backup_outdated(now, checksum) ==
    IF last.checksum = NoChecksum /\ last.time = NoTime
    THEN TRUE
    ELSE checksum # last.checksum

\* _should_backup that does not look at the checksum
should_backup_old(now, checksum) ==
    IF last.checksum = NoChecksum /\ last.time = NoTime
    THEN TRUE
    ELSE (now - last.time) >= frequency * TicksPerSecond

\* Monitor._should_backup
should_backup(now, checksum) ==
    IF last.checksum = NoChecksum /\ last.time = NoTime
    THEN TRUE
    ELSE LET is_old == (now - last.time) >= frequency * TicksPerSecond
             is_outdated == checksum # last.checksum
         IN  is_old /\ is_outdated

\* _update_time_and_hash that writes the time and the name, not the checksum
update_time_only(now, checksum) ==
    [checksum |-> last.checksum, time |-> now, name |-> VersionName(now)]

\* Monitor._update_time_and_hash
update_time_and_hash(now, checksum) ==
    [checksum |-> checksum, time |-> now, name |-> VersionName(now)]

\* the record Monitor._backup stores under the version's name
BackupRecord(now, checksum) ==
    [time |-> now, checksum |-> checksum, name |-> VersionName(now)]

\* versions[version_name] = {...} of Monitor._backup
WriteVersion(log, now, checksum) ==
    (VersionName(now) :> BackupRecord(now, checksum)) @@ log

\* the test of Monitor._commit that leaves an entry out of the copy
SkippedByCommit(filename) == Contains(filename, MetaDir)

\* a run that notes the time of a check that decides not to commit
RunStartStamping(now, checksum) ==
    /\ mpc = "idle" /\ spc = "idle"
    /\ tree' = [tree EXCEPT ![MetaDir] = "dir"]
    /\ IF should_backup(now, checksum)
       THEN /\ last' = update_time_and_hash(now, checksum)
            /\ cur' = [now |-> now, checksum |-> checksum, name |-> VersionName(now)]
            /\ mpc' = "backup"
            /\ result' = "running"
       ELSE /\ last' = [last EXCEPT !.time = now]
            /\ result' = "skipped"
            /\ UNCHANGED <<cur, mpc>>
    /\ UNCHANGED <<frequency, versions, snapshots, committed, mtodo, spc, target, stodo>>

\* Monitor.run up to the decision: the check of (now, checksum).  The
\* checksum is the one given or the one computed, a string in both cases.
RunStart(now, checksum) ==
    /\ mpc = "idle" /\ spc = "idle"
    /\ tree' = [tree EXCEPT ![MetaDir] = "dir"]
    /\ IF should_backup(now, checksum)
       THEN /\ last' = update_time_and_hash(now, checksum)
            /\ cur' = [now |-> now, checksum |-> checksum, name |-> VersionName(now)]
            /\ mpc' = "backup"
            /\ result' = "running"
       ELSE /\ result' = "skipped"
            /\ UNCHANGED <<last, cur, mpc>>
    /\ UNCHANGED <<frequency, versions, snapshots, committed, mtodo, spc, target, stodo>>

\* Monitor.run up to the decision, called while an apply may be at work: the
\* code takes no lock, only the run itself has to be a new one
RunStartUnlocked(now, checksum) ==
    /\ mpc = "idle"
    /\ tree' = [tree EXCEPT ![MetaDir] = "dir"]
    /\ IF should_backup(now, checksum)
       THEN /\ last' = update_time_and_hash(now, checksum)
            /\ cur' = [now |-> now, checksum |-> checksum, name |-> VersionName(now)]
            /\ mpc' = "backup"
            /\ result' = "running"
       ELSE /\ result' = "skipped"
            /\ UNCHANGED <<last, cur, mpc>>
    /\ UNCHANGED <<frequency, versions, snapshots, committed, mtodo, spc, target, stodo>>

\* Monitor._backup: the record is stored, the version directory made if it is
\* not there, and the working directory listed
RunBackup ==
    /\ mpc = "backup"
    /\ versions' = WriteVersion(versions, cur.now, cur.checksum)
    /\ snapshots' = IF cur.name \in DOMAIN snapshots
                    THEN snapshots
                    ELSE (cur.name :> EmptyDir) @@ snapshots
    /\ committed' = (cur.name :> tree) @@ committed
    /\ mtodo' = listdir(tree)
    /\ mpc' = "commit"
    /\ UNCHANGED <<frequency, tree, last, cur, spc, target, stodo, result>>

\* the run ends: nothing is in progress any more
RunEnds(how) ==
    /\ mpc' = "idle"
    /\ cur' = NoRun
    /\ mtodo' = {}
    /\ result' = how

\* one round of the loop of Monitor._commit, on entry filename
RunCopy(filename) ==
    /\ mpc = "commit"
    /\ filename \in mtodo
    /\ LET dest == snapshots[cur.name]
           copied == [snapshots EXCEPT ![cur.name][filename] = tree[filename]]
       IN  IF SkippedByCommit(filename)
           THEN /\ mtodo' = mtodo \ {filename}
                /\ UNCHANGED <<snapshots, mpc, cur, result>>
           ELSE IF tree[filename] = "none"
           THEN \* the entry is gone since listdir: is_file and is_dir are
                \* both false, nothing is copied
                /\ mtodo' = mtodo \ {filename}
                /\ UNCHANGED <<snapshots, mpc, cur, result>>
           ELSE IF tree[filename] = "file" /\ dest[filename] # "dir"
           THEN \* shutil.copy2 writes the file, over one of that name
                /\ snapshots' = copied
                /\ mtodo' = mtodo \ {filename}
                /\ UNCHANGED <<mpc, cur, result>>
           ELSE IF tree[filename] = "file"
           THEN \* shutil.copy2 onto a directory: IsADirectoryError
                /\ RunEnds("OSError")
                /\ UNCHANGED snapshots
           ELSE IF dest[filename] = "none"
           THEN \* shutil.copytree
                /\ snapshots' = copied
                /\ mtodo' = mtodo \ {filename}
                /\ UNCHANGED <<mpc, cur, result>>
           ELSE \* shutil.copytree onto what exists: FileExistsError, which
                \* run turns into the RuntimeError of a duplicate name
                /\ RunEnds("DuplicateVersion")
                /\ UNCHANGED snapshots
    /\ UNCHANGED <<frequency, tree, versions, last, committed, spc, target, stodo>>

\* a copy of Monitor._commit fails in the file system (disk full, permissions)
RunCopyFails ==
    /\ mpc = "commit"
    /\ \E filename \in mtodo : ~SkippedByCommit(filename)
    /\ RunEnds("OSError")
    /\ UNCHANGED <<frequency, tree, versions, last, snapshots, committed,
                   spc, target, stodo>>

\* the loop of Monitor._commit is over
RunDone ==
    /\ mpc = "commit"
    /\ mtodo = {}
    /\ RunEnds("committed")
    /\ UNCHANGED <<frequency, tree, versions, last, snapshots, committed,
                   spc, target, stodo>>

(***************************************************************************)
(* SC.                                                                     *)
(***************************************************************************)
\* the orders in which a shelf may enumerate its keys
Orders(keys) ==
    { o \in [1..Cardinality(keys) -> keys] :
        \A i, j \in 1..Cardinality(keys) : o[i] = o[j] => i = j }

\* SC.versions: the records of the shelf, in the order the shelf gives its keys
versions_list(order) == [i \in 1..Len(order) |-> versions[order[i]]]

\* one insertion of the sort by time, which is stable: version goes before
\* the first element that is not earlier than it
RECURSIVE InsertByTime(_, _)
InsertByTime(version, seq) ==
    IF seq = << >> THEN <<version>>
    ELSE IF version.time <= Head(seq).time THEN <<version>> \o seq
    ELSE <<Head(seq)>> \o InsertByTime(version, Tail(seq))

\* sorted(list of versions, key=lambda version: version.time)
RECURSIVE sorted_by_time(_)
sorted_by_time(seq) ==
    IF seq = << >> THEN << >>
    ELSE InsertByTime(Head(seq), sorted_by_time(Tail(seq)))

\* SC.print_log: the versions in the order of their entries
print_log(order) == sorted_by_time(versions_list(order))

\* what SC._version_by_commit_checksum gives: a version, the IndexError, or
\* the None of a loop that ends without a return
NoVersion == [time |-> NoTime, checksum |-> NoChecksum, name |-> NoName]
Found(version) == [kind |-> "version", version |-> version]
IndexError == [kind |-> "IndexError", version |-> NoVersion]
ReturnsNone == [kind |-> "None", version |-> NoVersion]

\* the candidate taken at the position of commit itself, not the one after it
candidate_checksum_at_commit(all, commit) ==
    LET checksums == sorted([i \in 1..Len(all) |-> all[i].checksum] \o <<commit>>)
    IN  checksums[index(checksums, commit)]

\* the candidate of SC._version_by_commit_checksum: the string after the first
\* occurrence of commit in the sorted list; << >> stands for the IndexError of
\* an index past the end (no checksum is empty)
candidate_checksum(all, commit) ==
    LET checksums == sorted([i \in 1..Len(all) |-> all[i].checksum] \o <<commit>>)
        at == index(checksums, commit) + 1
    IN  IF at > Len(checksums) THEN NoChecksum ELSE checksums[at]

\* _version_by_commit_checksum without the test of startswith
version_by_commit_checksum_unchecked(order, commit) ==
    LET all == versions_list(order)
        candidate == candidate_checksum(all, commit)
        hits == { i \in 1..Len(all) : all[i].checksum = candidate }
    IN  IF candidate = NoChecksum THEN IndexError
        ELSE IF hits = {} THEN ReturnsNone
        ELSE Found(all[CHOOSE i \in hits : \A j \in hits : i <= j])

\* SC._version_by_commit_checksum
version_by_commit_checksum(order, commit) ==
    LET all == versions_list(order)
        candidate == candidate_checksum(all, commit)
        hits == { i \in 1..Len(all) : all[i].checksum = candidate }
    IN  IF candidate = NoChecksum THEN IndexError
        ELSE IF ~StartsWith(candidate, commit) THEN IndexError
        ELSE IF hits = {} THEN ReturnsNone
        ELSE Found(all[CHOOSE i \in hits : \A j \in hits : i <= j])

\* how apply and remove end when no version comes back: the IndexError goes
\* up; None has no name and no checksum, an AttributeError
Unresolved(found) == IF found.kind = "None" THEN "AttributeError" ELSE "NoSuchCommit"

\* a listing that leaves no entry out, hidden or not
glob_with_hidden(dir) == listdir(dir)

\* glob.glob(os.path.join(directory, '*')): the entries '*' matches
glob(dir) == { n \in listdir(dir) : ~IsHidden(n) }

\* a removal that stops at the first key whose record has the checksum
KeptByRemoveFirst(log, checksum) ==
    LET same == { key \in DOMAIN log : log[key].checksum = checksum }
    IN  IF same = {} THEN DOMAIN log
        ELSE DOMAIN log \ { CHOOSE key \in same : \A other \in same : key <= other }

\* the keys SC.remove leaves in the shelf
KeptByRemove(log, checksum) == { key \in DOMAIN log : log[key].checksum # checksum }

\* apply ends: nothing is in progress any more
ApplyEnds(how) ==
    /\ spc' = "idle"
    /\ target' = NoName
    /\ stodo' = {}
    /\ result' = how

\* SC.apply up to the clearing: the commit is resolved and the directory globbed
ApplyStart(commit, order) ==
    /\ mpc = "idle" /\ spc = "idle"
    /\ LET found == version_by_commit_checksum(order, commit)
       IN  IF found.kind = "version"
           THEN /\ target' = found.version.name
                /\ stodo' = glob(tree)
                /\ spc' = "clear"
                /\ result' = "running"
           ELSE /\ result' = Unresolved(found)
                /\ UNCHANGED <<target, stodo, spc>>
    /\ UNCHANGED <<frequency, tree, versions, last, snapshots, committed, mpc, cur, mtodo>>

\* SC.apply up to the clearing, called while a run may be at work: the code
\* takes no lock, only the apply itself has to be a new one
ApplyStartUnlocked(commit, order) ==
    /\ spc = "idle"
    /\ LET found == version_by_commit_checksum(order, commit)
       IN  IF found.kind = "version"
           THEN /\ target' = found.version.name
                /\ stodo' = glob(tree)
                /\ spc' = "clear"
                /\ result' = "running"
           ELSE /\ result' = Unresolved(found)
                /\ UNCHANGED <<target, stodo, spc>>
    /\ UNCHANGED <<frequency, tree, versions, last, snapshots, committed, mpc, cur, mtodo>>

\* one round of the loop of SC._clear_working_directory: rmtree or remove.
\* What lives in the metadata directory goes with it.
ApplyClear(path) ==
    /\ spc = "clear"
    /\ path \in stodo
    /\ tree' = [tree EXCEPT ![path] = "none"]
    /\ stodo' = stodo \ {path}
    /\ IF path = MetaDir
       THEN versions' = << >> /\ snapshots' = << >> /\ last' = EmptyShelf
       ELSE UNCHANGED <<versions, snapshots, last>>
    /\ UNCHANGED <<frequency, committed, mpc, cur, mtodo, spc, target, result>>

\* SC._copy_to_working_directory starts: the version directory is listed
ApplyList ==
    /\ spc = "clear"
    /\ stodo = {}
    /\ IF target \in DOMAIN snapshots
       THEN /\ stodo' = listdir(snapshots[target])
            /\ spc' = "copy"
            /\ UNCHANGED <<target, result>>
       ELSE \* os.listdir of a directory that is not there
            ApplyEnds("OSError")
    /\ UNCHANGED <<frequency, tree, versions, last, snapshots, committed, mpc, cur, mtodo>>

\* one round of the loop of SC._copy_to_working_directory, on entry name
ApplyCopy(name) ==
    /\ spc = "copy"
    /\ name \in stodo
    /\ LET kind == snapshots[target][name]
       IN  IF (kind = "file" /\ tree[name] # "dir") \/ (kind = "dir" /\ tree[name] = "none")
           THEN \* shutil.copy2 (over a file of that name), shutil.copytree
                /\ tree' = [tree EXCEPT ![name] = kind]
                /\ stodo' = stodo \ {name}
                /\ UNCHANGED <<spc, target, result>>
           ELSE \* copy2 onto a directory, copytree onto what exists
                /\ ApplyEnds("OSError")
                /\ UNCHANGED tree
    /\ UNCHANGED <<frequency, versions, last, snapshots, committed, mpc, cur, mtodo>>

\* a copy of SC._copy_to_working_directory fails in the file system
ApplyCopyFails ==
    /\ spc = "copy"
    /\ stodo # {}
    /\ ApplyEnds("OSError")
    /\ UNCHANGED <<frequency, tree, versions, last, snapshots, committed, mpc, cur, mtodo>>

\* the loop of SC._copy_to_working_directory is over
ApplyDone ==
    /\ spc = "copy"
    /\ stodo = {}
    /\ ApplyEnds("applied")
    /\ UNCHANGED <<frequency, tree, versions, last, snapshots, committed, mpc, cur, mtodo>>

\* a removal that empties the last shelf as well
RemoveAndForget(commit, order) ==
    /\ mpc = "idle" /\ spc = "idle"
    /\ LET found == version_by_commit_checksum(order, commit)
           kept == KeptByRemove(versions, found.version.checksum)
       IN  IF found.kind = "version"
           THEN /\ versions' = [key \in kept |-> versions[key]]
                /\ last' = EmptyShelf
                /\ result' = IF Cardinality(DOMAIN versions \ kept) > 1
                              THEN "removed several" ELSE "removed"
           ELSE /\ result' = Unresolved(found)
                /\ UNCHANGED <<versions, last>>
    /\ UNCHANGED <<frequency, tree, snapshots, committed,
                   mpc, cur, mtodo, spc, target, stodo>>

\* SC.remove
Remove(commit, order) ==
    /\ mpc = "idle" /\ spc = "idle"
    /\ LET found == version_by_commit_checksum(order, commit)
           kept == KeptByRemove(versions, found.version.checksum)
       IN  IF found.kind = "version"
           THEN /\ versions' = [key \in kept |-> versions[key]]
                /\ result' = IF Cardinality(DOMAIN versions \ kept) > 1
                              THEN "removed several" ELSE "removed"
           ELSE /\ result' = Unresolved(found)
                /\ UNCHANGED versions
    /\ UNCHANGED <<frequency, tree, last, snapshots, committed,
                   mpc, cur, mtodo, spc, target, stodo>>

(***************************************************************************)
(* The user of the working directory.                                      *)
(***************************************************************************)
\* a file or a directory is created at the top of the working directory
Create(entry) ==
    /\ mpc = "idle" /\ spc = "idle"
    /\ tree[entry[1]] = "none"
    /\ tree' = [tree EXCEPT ![entry[1]] = entry[2]]
    /\ UNCHANGED <<frequency, versions, last, snapshots, committed,
                   mpc, cur, mtodo, spc, target, stodo, result>>

\* an entry at the top of the working directory is deleted
Delete(name) ==
    /\ mpc = "idle" /\ spc = "idle"
    /\ tree[name] # "none"
    /\ tree' = [tree EXCEPT ![name] = "none"]
    /\ UNCHANGED <<frequency, versions, last, snapshots, committed,
                   mpc, cur, mtodo, spc, target, stodo, result>>

(***************************************************************************)
(* The checksum of the working directory.                                  *)
(***************************************************************************)
\* checksumdir.dirhash(directory, ignore_hidden=True): the digest of the
\* digests of the files that are not hidden, sorted.  The files of the model
\* are all empty and have one digest, "2"; "H" stands for what the outer
\* digest makes of the list.
dirhash_ignore_hidden(dir) ==
    LET files == { n \in listdir(dir) : dir[n] = "file" /\ ~IsHidden(n) }
    IN  <<"H">> \o [i \in 1..Cardinality(files) |-> "2"]

\* Monitor._checksum
checksum_of_directory == dirhash_ignore_hidden(tree)

(***************************************************************************)
(* Manager.                                                                *)
(***************************************************************************)
\* Path.exists and Path.is_dir of the paths: the kind of what is there
PathKind(path) ==
    CASE path \in {"temp", "/w/temp"} -> "dir"
      [] path = "notes.txt" -> "file"
      [] OTHER -> "none"

\* db[str(directory)] = {'time': date} of Manager.monitor
monitored(shelf, directory, date) == (directory :> [time |-> date]) @@ shelf

\* del db[str(directory)] of Manager.unmonitor
unmonitored(shelf, directory) ==
    [key \in DOMAIN shelf \ {directory} |-> shelf[key]]

\* Manager.monitor without the test of is_dir
ManagerMonitorAnything(directory, date) ==
    /\ dpc # "cycle"
    /\ IF PathKind(directory) = "none"
       THEN result' = "FileNotFoundError" /\ UNCHANGED db
       ELSE IF directory \in DOMAIN db
       THEN result' = "FileExistsError" /\ UNCHANGED db
       ELSE result' = "monitored" /\ db' = monitored(db, directory, date)
    /\ UNCHANGED <<frequency, tree, versions, last, snapshots, committed,
                   mpc, cur, mtodo, spc, target, stodo>>
    /\ UNCHANGED <<hvars, is_debug, stop_file, dpc, dtodo, ran, started>>

\* Manager.monitor.  The shelf is open in the generator of Manager.__iter__
\* while the for loop of the daemon runs: it is written between the cycles.
ManagerMonitor(directory, date) ==
    /\ dpc # "cycle"
    /\ IF PathKind(directory) = "none"
       THEN result' = "FileNotFoundError" /\ UNCHANGED db
       ELSE IF PathKind(directory) # "dir"
       THEN result' = "NotADirectoryError" /\ UNCHANGED db
       ELSE IF directory \in DOMAIN db
       THEN result' = "FileExistsError" /\ UNCHANGED db
       ELSE result' = "monitored" /\ db' = monitored(db, directory, date)
    /\ UNCHANGED <<frequency, tree, versions, last, snapshots, committed,
                   mpc, cur, mtodo, spc, target, stodo>>
    /\ UNCHANGED <<hvars, is_debug, stop_file, dpc, dtodo, ran, started>>

\* Manager.unmonitor: del of a key that is not there is a KeyError
ManagerUnmonitor(directory) ==
    /\ dpc # "cycle"
    /\ IF directory \in DOMAIN db
       THEN result' = "unmonitored" /\ db' = unmonitored(db, directory)
       ELSE result' = "KeyError" /\ UNCHANGED db
    /\ UNCHANGED <<frequency, tree, versions, last, snapshots, committed,
                   mpc, cur, mtodo, spc, target, stodo>>
    /\ UNCHANGED <<hvars, is_debug, stop_file, dpc, dtodo, ran, started>>

(***************************************************************************)
(* Daemon.                                                                 *)
(***************************************************************************)
\* a daemon that takes no stop file for a reason to stop
should_stop_never == FALSE

\* Daemon._should_stop
should_stop == stop_file

\* Daemon.start that removes the stop file whatever it is called with
DaemonStartRemoving(remove_stopfile_first) ==
    /\ dpc = "off"
    /\ stop_file' = FALSE
    /\ dpc' = "test"
    /\ ran' = {}
    /\ started' = [remove |-> remove_stopfile_first, stop_file |-> stop_file]
    /\ UNCHANGED <<mvars, hvars, is_debug, db, dtodo>>

\* Daemon.start up to the while loop: the stop file is removed if it is to
\* be, and is there
DaemonStart(remove_stopfile_first) ==
    /\ dpc = "off"
    /\ stop_file' = IF remove_stopfile_first /\ stop_file THEN FALSE ELSE stop_file
    /\ dpc' = "test"
    /\ ran' = {}
    /\ started' = [remove |-> remove_stopfile_first, stop_file |-> stop_file]
    /\ UNCHANGED <<mvars, hvars, is_debug, db, dtodo>>

\* the test of the while loop: start returns, or the for loop begins on what
\* Manager.__iter__ gives, the keys of the shelf
DaemonTest ==
    /\ dpc = "test"
    /\ IF should_stop
       THEN dpc' = "off" /\ UNCHANGED <<dtodo, ran>>
       ELSE dpc' = "cycle" /\ dtodo' = DOMAIN db /\ ran' = {}
    /\ UNCHANGED <<mvars, hvars, is_debug, stop_file, db, started>>

\* one round of the for loop: Monitor(folder, polling_frequency).run(), at
\* the time now of a clock that does not go back, on the checksum it computes
DaemonRun(folder, now) ==
    /\ dpc = "cycle"
    /\ folder \in dtodo
    /\ last.time <= now
    /\ RunStart(now, checksum_of_directory)
    /\ dtodo' = dtodo \ {folder}
    /\ ran' = ran \cup {folder}
    /\ UNCHANGED <<hvars, is_debug, stop_file, db, dpc, started>>

\* the for loop is over: break in debug mode, time.sleep and the test of the
\* while loop again otherwise
DaemonSleep ==
    /\ dpc = "cycle"
    /\ dtodo = {}
    /\ mpc = "idle"
    /\ dpc' = IF is_debug THEN "off" ELSE "test"
    /\ UNCHANGED <<mvars, hvars, is_debug, stop_file, db, dtodo, ran, started>>

\* Daemon.stop: the stop file is touched
DaemonStop ==
    /\ stop_file' = TRUE
    /\ UNCHANGED <<mvars, hvars, is_debug, db, dpc, dtodo, ran, started>>

\* Daemon.start in a second process, up to the while loop: it takes the stop
\* file away as the first does, whatever loop is running
SecondStart(remove_stopfile_first) ==
    /\ dpc2 = "off"
    /\ stop_file' = IF remove_stopfile_first /\ stop_file THEN FALSE ELSE stop_file
    /\ dpc2' = "test"
    /\ UNCHANGED <<mvars, hvars, is_debug, db, dpc, dtodo, ran, started, dtodo2>>

\* the test of the while loop in the second process
SecondTest ==
    /\ dpc2 = "test"
    /\ IF should_stop
       THEN dpc2' = "off" /\ UNCHANGED dtodo2
       ELSE dpc2' = "cycle" /\ dtodo2' = DOMAIN db
    /\ UNCHANGED <<mvars, hvars, dvars>>

\* one round of the for loop in the second process, begun when no other run
\* is at work on the directory
SecondRun(folder, now) ==
    /\ dpc2 = "cycle"
    /\ folder \in dtodo2
    /\ last.time <= now
    /\ RunStart(now, checksum_of_directory)
    /\ dtodo2' = dtodo2 \ {folder}
    /\ UNCHANGED <<hvars, dvars, dpc2>>

\* the for loop of the second process is over
SecondSleep ==
    /\ dpc2 = "cycle"
    /\ dtodo2 = {}
    /\ mpc = "idle"
    /\ dpc2' = IF is_debug THEN "off" ELSE "test"
    /\ UNCHANGED <<mvars, hvars, dvars, dtodo2>>

(***************************************************************************)
(* The specifications: one writer at a time.                               *)
(***************************************************************************)
\* SC("temp") and Monitor("temp", frequency) on a directory that holds .tbsc
\* and nothing else
Init ==
    /\ frequency \in Frequencies
    /\ tree = [EmptyDir EXCEPT ![MetaDir] = "dir"]
    /\ versions = << >>
    /\ last = EmptyShelf
    /\ snapshots = << >>
    /\ committed = << >>
    /\ mpc = "idle"
    /\ cur = NoRun
    /\ mtodo = {}
    /\ spc = "idle"
    /\ target = NoName
    /\ stodo = {}
    /\ result = "none"
    /\ written = {}
    /\ removed = FALSE
    /\ pair = NoPair
    /\ is_debug = FALSE
    /\ stop_file = FALSE
    /\ db = << >>
    /\ dpc = "off"
    /\ dtodo = {}
    /\ ran = {}
    /\ started = [remove |-> TRUE, stop_file |-> FALSE]
    /\ dpc2 = "off"
    /\ dtodo2 = {}
    /\ asked = "no"

\* Spec: the user of the working directory creates and deletes entries
\* between the operations
Next ==
    \/ /\ \E now \in Times, checksum \in Checksums : RunStart(now, checksum)
       /\ UNCHANGED <<hvars, dvars, xvars>>
    \/ RunBackup /\ UNCHANGED <<hvars, dvars, xvars>>
    \/ /\ \E filename \in AllNames : RunCopy(filename)
       /\ UNCHANGED <<hvars, dvars, xvars>>
    \/ RunCopyFails /\ UNCHANGED <<hvars, dvars, xvars>>
    \/ RunDone /\ UNCHANGED <<hvars, dvars, xvars>>
    \/ /\ \E commit \in Prefixes, order \in Orders(DOMAIN versions) :
            ApplyStart(commit, order)
       /\ UNCHANGED <<hvars, dvars, xvars>>
    \/ /\ \E path \in AllNames : ApplyClear(path)
       /\ UNCHANGED <<hvars, dvars, xvars>>
    \/ ApplyList /\ UNCHANGED <<hvars, dvars, xvars>>
    \/ /\ \E name \in AllNames : ApplyCopy(name)
       /\ UNCHANGED <<hvars, dvars, xvars>>
    \/ ApplyCopyFails /\ UNCHANGED <<hvars, dvars, xvars>>
    \/ ApplyDone /\ UNCHANGED <<hvars, dvars, xvars>>
    \/ /\ \E commit \in Prefixes, order \in Orders(DOMAIN versions) :
            Remove(commit, order)
       /\ UNCHANGED <<hvars, dvars, xvars>>
    \/ /\ \E entry \in Creatable : Create(entry)
       /\ UNCHANGED <<hvars, dvars, xvars>>
    \/ /\ \E name \in UserNames : Delete(name)
       /\ UNCHANGED <<hvars, dvars, xvars>>

Spec == Init /\ [][Next]_vars

\* SpecLog: the checks and the removals alone, on a working directory that
\* stays empty and a file system that does not fail, over a longer time, so
\* that the log holds several versions
NextLog ==
    \/ /\ \E now \in LogTimes, checksum \in Checksums : RunStart(now, checksum)
       /\ UNCHANGED <<hvars, dvars, xvars>>
    \/ RunBackup /\ removed' = FALSE /\ UNCHANGED <<written, pair, dvars, xvars>>
    \/ /\ \E filename \in AllNames : RunCopy(filename)
       /\ UNCHANGED <<hvars, dvars, xvars>>
    \/ RunDone /\ UNCHANGED <<hvars, dvars, xvars>>
    \/ /\ \E commit \in Prefixes, order \in Orders(DOMAIN versions) :
            Remove(commit, order)
       /\ removed' = (removed \/ DOMAIN versions' # DOMAIN versions)
       /\ UNCHANGED <<written, pair, dvars, xvars>>

SpecLog == Init /\ [][NextLog]_vars

\* SpecWritten: the checks and the removals over a short time, with the
\* history of the records the commits stored
NextWritten ==
    \/ /\ \E now \in ShortTimes, checksum \in Checksums : RunStart(now, checksum)
       /\ UNCHANGED <<hvars, dvars, xvars>>
    \/ /\ RunBackup
       /\ written' = written \cup {BackupRecord(cur.now, cur.checksum)}
       /\ UNCHANGED <<removed, pair, dvars, xvars>>
    \/ /\ \E filename \in AllNames : RunCopy(filename)
       /\ UNCHANGED <<hvars, dvars, xvars>>
    \/ RunDone /\ UNCHANGED <<hvars, dvars, xvars>>
    \/ /\ \E commit \in Prefixes, order \in Orders(DOMAIN versions) :
            Remove(commit, order)
       /\ written' = written \ { versions[key] : key \in DOMAIN versions \ DOMAIN versions' }
       /\ UNCHANGED <<removed, pair, dvars, xvars>>

SpecWritten == Init /\ [][NextWritten]_vars

\* SpecChecksum: the checks of Monitor.run() on the checksum it computes,
\* and a user who creates and deletes files between them
NextChecksum ==
    \/ /\ \E now \in Times : RunStart(now, checksum_of_directory)
       /\ UNCHANGED <<hvars, dvars, xvars>>
    \/ RunBackup /\ UNCHANGED <<hvars, dvars, xvars>>
    \/ /\ \E filename \in AllNames : RunCopy(filename)
       /\ UNCHANGED <<hvars, dvars, xvars>>
    \/ RunDone /\ UNCHANGED <<hvars, dvars, xvars>>
    \/ /\ \E entry \in HashedFiles : Create(entry)
       /\ UNCHANGED <<hvars, dvars, xvars>>
    \/ /\ \E name \in HashedNames : Delete(name)
       /\ UNCHANGED <<hvars, dvars, xvars>>

SpecChecksum == Init /\ [][NextChecksum]_vars

\* SpecDaemon: Daemon and Manager on one working directory that holds
\* nothing, not the metadata directory either, and a file system that does
\* not fail; the user creates and deletes a file between the checks
InitDaemon ==
    /\ frequency \in Frequencies
    /\ tree = EmptyDir
    /\ versions = << >>
    /\ last = EmptyShelf
    /\ snapshots = << >>
    /\ committed = << >>
    /\ mpc = "idle"
    /\ cur = NoRun
    /\ mtodo = {}
    /\ spc = "idle"
    /\ target = NoName
    /\ stodo = {}
    /\ result = "none"
    /\ written = {}
    /\ removed = FALSE
    /\ pair = NoPair
    /\ is_debug \in BOOLEAN
    /\ stop_file = FALSE
    /\ db = << >>
    /\ dpc = "off"
    /\ dtodo = {}
    /\ ran = {}
    /\ started = [remove |-> TRUE, stop_file |-> FALSE]
    /\ dpc2 = "off"
    /\ dtodo2 = {}
    /\ asked = "no"

\* the steps of the process that runs Daemon.start
DaemonStep ==
    \/ DaemonTest /\ UNCHANGED xvars
    \/ /\ \E folder \in Paths, now \in Times : DaemonRun(folder, now)
       /\ UNCHANGED xvars
    \/ RunBackup /\ UNCHANGED <<hvars, dvars, xvars>>
    \/ /\ \E filename \in AllNames : RunCopy(filename)
       /\ UNCHANGED <<hvars, dvars, xvars>>
    \/ RunDone /\ UNCHANGED <<hvars, dvars, xvars>>
    \/ DaemonSleep /\ UNCHANGED xvars

NextDaemon ==
    \/ /\ \E remove_stopfile_first \in BOOLEAN : DaemonStart(remove_stopfile_first)
       /\ UNCHANGED xvars
    \/ DaemonStep
    \/ DaemonStop /\ UNCHANGED xvars
    \/ /\ \E directory \in Paths, date \in Dates : ManagerMonitor(directory, date)
       /\ UNCHANGED xvars
    \/ /\ \E directory \in Paths : ManagerUnmonitor(directory)
       /\ UNCHANGED xvars
    \/ /\ \E entry \in DaemonFiles : Create(entry)
       /\ UNCHANGED <<hvars, dvars, xvars>>
    \/ /\ \E name \in DaemonNames : Delete(name)
       /\ UNCHANGED <<hvars, dvars, xvars>>

SpecDaemon == InitDaemon /\ [][NextDaemon]_vars

\* SpecDaemonLive: the process that runs Daemon.start goes on as long as it
\* has a step to take
SpecDaemonLive == SpecDaemon /\ WF_vars(DaemonStep)

\* SpecTwo: two processes run Daemon.start on one stop file and one
\* registry, as two calls of `tabasco start` do; stop() is called at any
\* time.  The working directory is empty and the file system does not fail.
NextTwo ==
    \/ /\ \E remove_stopfile_first \in BOOLEAN : DaemonStart(remove_stopfile_first)
       /\ asked' = "no"
       /\ UNCHANGED <<dpc2, dtodo2>>
    \/ /\ DaemonTest
       /\ asked' = IF asked = "no" \/ dpc' = "off" THEN "no" ELSE "lost"
       /\ UNCHANGED <<dpc2, dtodo2>>
    \/ /\ \E folder \in Paths, now \in Times : DaemonRun(folder, now)
       /\ UNCHANGED xvars
    \/ DaemonSleep /\ UNCHANGED xvars
    \/ /\ DaemonStop
       /\ asked' = IF dpc # "off" THEN "stop" ELSE asked
       /\ UNCHANGED <<dpc2, dtodo2>>
    \/ /\ \E remove_stopfile_first \in BOOLEAN : SecondStart(remove_stopfile_first)
       /\ asked' = IF asked = "stop" THEN "stop, start" ELSE asked
    \/ SecondTest /\ UNCHANGED asked
    \/ /\ \E folder \in Paths, now \in Times : SecondRun(folder, now)
       /\ UNCHANGED asked
    \/ SecondSleep /\ UNCHANGED asked
    \/ RunBackup /\ UNCHANGED <<hvars, dvars, xvars>>
    \/ /\ \E filename \in AllNames : RunCopy(filename)
       /\ UNCHANGED <<hvars, dvars, xvars>>
    \/ RunDone /\ UNCHANGED <<hvars, dvars, xvars>>
    \/ /\ dpc2 # "cycle"
       /\ \E directory \in Paths, date \in Dates : ManagerMonitor(directory, date)
       /\ UNCHANGED xvars
    \/ /\ dpc2 # "cycle"
       /\ \E directory \in Paths : ManagerUnmonitor(directory)
       /\ UNCHANGED xvars

SpecTwo == InitDaemon /\ [][NextTwo]_vars

(***************************************************************************)
(* The specifications: a check and an apply with no lock between them.     *)
(***************************************************************************)
\* the polling tick: Monitor.run() on the checksum it computes, at a time
\* after the last commit
PairTick(now) ==
    /\ last.time < now
    /\ IF pair.mode = "interleaved"
       THEN RunStartUnlocked(now, checksum_of_directory)
       ELSE RunStart(now, checksum_of_directory)

\* SC.apply of the commit, called by the user
PairApply(commit, order) ==
    IF pair.mode = "interleaved"
    THEN ApplyStartUnlocked(commit, order)
    ELSE ApplyStart(commit, order)

\* SpecPair: the user creates and deletes entries between polling ticks;
\* then one tick and one apply come, one after the other or at once, their
\* file operations in any order; the file system does not fail
NextPair ==
    \/ /\ pair.mode = "setup"
       /\ \E entry \in PairFiles : Create(entry)
       /\ UNCHANGED <<hvars, dvars, xvars>>
    \/ /\ pair.mode = "setup"
       /\ \E name \in PairNames : Delete(name)
       /\ UNCHANGED <<hvars, dvars, xvars>>
    \/ /\ pair.mode = "setup"
       /\ \E now \in PairTimes : PairTick(now)
       /\ UNCHANGED <<hvars, dvars, xvars>>
    \/ /\ pair.mode = "setup"
       /\ mpc = "idle" /\ spc = "idle"
       /\ \E mode \in {"serial", "interleaved"} : pair' = [pair EXCEPT !.mode = mode]
       /\ UNCHANGED <<mvars, written, removed, dvars, xvars>>
    \/ /\ pair.mode # "setup" /\ pair.run = "no"
       /\ \E now \in PairTimes : PairTick(now)
       /\ pair' = [pair EXCEPT !.run = IF mpc' = "backup" THEN "started" ELSE "skipped",
                               !.taken = cur'.name]
       /\ UNCHANGED <<written, removed, dvars, xvars>>
    \/ /\ pair.mode # "setup" /\ pair.apply = "no"
       /\ \E commit \in Prefixes, order \in Orders(DOMAIN versions) :
            PairApply(commit, order)
       /\ pair' = IF spc' = "clear"
                  THEN [pair EXCEPT !.apply = "started", !.before = tree,
                                    !.applied = snapshots[target']]
                  ELSE [pair EXCEPT !.apply = "failed"]
       /\ UNCHANGED <<written, removed, dvars, xvars>>
    \/ RunBackup /\ UNCHANGED <<hvars, dvars, xvars>>
    \/ /\ \E filename \in AllNames : RunCopy(filename)
       /\ UNCHANGED <<hvars, dvars, xvars>>
    \/ /\ RunDone
       /\ pair' = IF pair.run = "started" THEN [pair EXCEPT !.run = "done"] ELSE pair
       /\ UNCHANGED <<written, removed, dvars, xvars>>
    \/ /\ \E path \in AllNames : ApplyClear(path)
       /\ UNCHANGED <<hvars, dvars, xvars>>
    \/ ApplyList /\ UNCHANGED <<hvars, dvars, xvars>>
    \/ /\ \E name \in AllNames : ApplyCopy(name)
       /\ pair' = IF spc' = "idle" THEN [pair EXCEPT !.apply = "failed"] ELSE pair
       /\ UNCHANGED <<written, removed, dvars, xvars>>
    \/ /\ ApplyDone
       /\ pair' = [pair EXCEPT !.apply = "done"]
       /\ UNCHANGED <<written, removed, dvars, xvars>>

SpecPair == Init /\ [][NextPair]_vars

(***************************************************************************)
(* The claims.                                                             *)
(***************************************************************************)
\* the stored checksums
StoredChecksums == { versions[key].checksum : key \in DOMAIN versions }

\* s <= t for strings
StrLessEq(s, t) == s = t \/ StrLess(s, t)

\* C1: a check commits if there is no last commit state, and otherwise if and
\* only if the time since the last commit is at least the frequency and the
\* checksum differs from the last one
C1_CommitIffOldAndOutdated ==
    [][(mpc = "idle" /\ spc = "idle") =>
        \A now \in LogTimes, checksum \in Checksums :
            RunStart(now, checksum) =>
                /\ mpc' = "backup" \/ result' = "skipped"
                /\ (mpc' = "backup") <=>
                     \/ last = EmptyShelf
                     \/ /\ now - last.time >= frequency * TicksPerSecond
                        /\ checksum # last.checksum]_vars

\* C1: a check of a changed checksum, at least frequency >= 1 seconds after the
\* last commit, has decided to commit
C1_Witness ==
    /\ mpc = "backup"
    /\ frequency >= 1
    /\ \E key \in DOMAIN versions :
        /\ versions[key].checksum # cur.checksum
        /\ cur.now - versions[key].time >= frequency * TicksPerSecond

\* C3: resolve succeeds exactly when a stored checksum starts with the prefix,
\* then gives a stored version whose checksum is the smallest stored checksum
\* that starts with it, and never comes back without a version
C3_ResolveSmallestMatch ==
    \A commit \in Prefixes, order \in Orders(DOMAIN versions) :
        LET found == version_by_commit_checksum(order, commit)
            matching == { c \in StoredChecksums : StartsWith(c, commit) }
        IN  /\ found.kind # "None"
            /\ found.kind = "version" <=> matching # {}
            /\ found.kind = "version" =>
                 /\ \E key \in DOMAIN versions : versions[key] = found.version
                 /\ found.version.checksum \in matching
                 /\ \A c \in matching : StrLessEq(found.version.checksum, c)

\* C3: a resolution has failed on a log that holds a checksum and a longer one
\* that starts with it
C3_Witness ==
    /\ result = "NoSuchCommit"
    /\ <<"H">> \in StoredChecksums
    /\ <<"H", "2">> \in StoredChecksums

\* C4: a commit whose name is already a key of the version log leaves the
\* record under that name as it was, and fails with DuplicateVersion
C4_DuplicateNameKeepsRecord ==
    [][(mpc = "backup" /\ cur.name \in DOMAIN versions) =>
         /\ cur.name \in DOMAIN versions'
         /\ versions'[cur.name] = versions[cur.name]]_vars

\* C5: after a removal no record has the checksum of the resolved version,
\* and every record with another checksum is there as it was
C5_RemoveAllWithChecksum ==
    [][(mpc = "idle" /\ spc = "idle" /\ result' \in {"removed", "removed several"}) =>
        \A commit \in Prefixes, order \in Orders(DOMAIN versions) :
            LET found == version_by_commit_checksum(order, commit)
            IN  (Remove(commit, order) /\ found.kind = "version") =>
                  /\ \A key \in DOMAIN versions' :
                        versions'[key].checksum # found.version.checksum
                  /\ \A key \in DOMAIN versions :
                        versions[key].checksum # found.version.checksum =>
                            key \in DOMAIN versions' /\ versions'[key] = versions[key]]_vars

\* C5: a removal has deleted several records of one checksum and left a record
\* with another checksum
C5_Witness ==
    /\ result = "removed several"
    /\ DOMAIN versions # {}

\* the last commit state of the run in progress
LastOfRun == [checksum |-> cur.checksum, time |-> cur.now, name |-> VersionName(cur.now)]

\* C7: the last commit state holds (now, checksum) of the run before the
\* record is written and before any file is copied, stays so through the copy,
\* and after a copy that failed no check of the same checksum commits
C7_LastStateBeforeBackup ==
    [][/\ mpc \in {"backup", "commit"} => (last = LastOfRun /\ last' = last)
       /\ (mpc = "commit" /\ mpc' = "idle" /\ result' # "committed") =>
             \A now \in LogTimes, checksum \in Checksums :
                 checksum = cur.checksum => ~(should_backup(now, checksum))']_vars

\* C7: a copy has failed after the record was written, and the last commit
\* state holds the checksum of that record
C7_Witness ==
    /\ mpc = "idle"
    /\ result = "OSError"
    /\ \E key \in DOMAIN versions :
        /\ versions[key].checksum = last.checksum
        /\ versions[key].time = last.time
        /\ committed[key][<<"F">>] = "file"
        /\ snapshots[key][<<"F">>] = "none"

\* C2: when apply is over, the working directory holds exactly the entries it
\* held when the version was committed, and the metadata directory
C2_ApplyRestoresEntries ==
    [][ApplyDone => \A n \in AllNames : tree'[n] = committed[target][n]]_vars

\* C6: when a commit is over, its snapshot copy holds every entry of the
\* working directory but the metadata directory, and nothing else
C6_SnapshotHoldsAllButMeta ==
    [][RunDone =>
         \A n \in AllNames :
             snapshots'[cur.name][n] = IF n = MetaDir THEN "none" ELSE tree[n]]_vars

\* C8: whenever no operation is in progress, every record of the version log
\* has a snapshot copy that holds the complete tree of its commit
C8_RecordHasCompleteCopy ==
    (mpc = "idle" /\ spc = "idle") =>
        \A key \in DOMAIN versions :
            /\ key \in DOMAIN snapshots
            /\ \A n \in UserNames : snapshots[key][n] = committed[key][n]

\* C9: no step of apply changes the version log, the last commit state, a
\* snapshot copy or the entry of the metadata directory
C9_ApplyKeepsMetadata ==
    [][(spc # "idle" \/ spc' # "idle") =>
         /\ UNCHANGED <<versions, last, snapshots>>
         /\ tree'[MetaDir] = tree[MetaDir]]_vars

\* C9: apply has put a file back, and the log still holds its version
C9_Witness ==
    /\ result = "applied"
    /\ tree[<<"F">>] = "file"
    /\ DOMAIN versions # {}
    /\ last # EmptyShelf

\* C10: apply and remove with a prefix that no stored checksum starts with
\* end in NoSuchCommit, start nothing and change nothing
C10_NoSuchCommitChangesNothing ==
    [][(mpc = "idle" /\ spc = "idle") =>
        \A commit \in Prefixes :
            (\A c \in StoredChecksums : ~StartsWith(c, commit)) =>
                \A order \in Orders(DOMAIN versions) :
                    (ApplyStart(commit, order) \/ Remove(commit, order)) =>
                        /\ result' = "NoSuchCommit"
                        /\ spc' = "idle"
                        /\ UNCHANGED <<tree, versions, last, snapshots>>]_vars

\* C10: an operation has ended in NoSuchCommit on a log that holds a version
\* and a working directory that holds a file
C10_Witness ==
    /\ result = "NoSuchCommit"
    /\ DOMAIN versions # {}
    /\ tree[<<"F">>] = "file"

\* C11: when several stored versions have the checksum resolve selects,
\* resolve gives the one of them with the earliest time, in whatever order
\* the version log gives its records
C11_ResolveEarliestOfChecksum ==
    \A commit \in Prefixes, order \in Orders(DOMAIN versions) :
        LET found == version_by_commit_checksum(order, commit)
        IN  found.kind = "version" =>
              \A key \in DOMAIN versions :
                  versions[key].checksum = found.version.checksum =>
                      found.version.time <= versions[key].time

\* C12: log has one entry for each record of the version log, in an order of
\* times that never goes down, in whatever order the log gives its records,
\* and the entries are the records the commits stored less those removed
C12_LogListsRecordsNotRemoved ==
    \A order \in Orders(DOMAIN versions) :
        LET entries == print_log(order)
            listed == { entries[i] : i \in 1..Len(entries) }
        IN  /\ Len(entries) = Cardinality(DOMAIN versions)
            /\ listed = { versions[key] : key \in DOMAIN versions }
            /\ \A i \in 1..(Len(entries) - 1) : entries[i].time <= entries[i + 1].time
            /\ listed = written

\* C13: whenever a file that a commit would copy is added to the working
\* directory or removed from it, the checksum Monitor computes changes
C13_ChecksumTellsCopiedFiles ==
    [][\A n \in AllNames :
          (/\ tree'[n] # tree[n]
           /\ "file" \in {tree[n], tree'[n]}
           /\ ~SkippedByCommit(n))
          => checksum_of_directory' # checksum_of_directory]_vars

\* the for loop of the daemon has called Monitor.run for every key of the
\* registry, and the last run is over
CycleDone ==
    /\ dpc = "cycle"
    /\ dtodo = {}
    /\ mpc = "idle"
    /\ ran = DOMAIN db

C16_MonitorFailsOrRegisters ==
    [][(dpc # "cycle" /\ mpc = "idle") =>
        \A directory \in Paths, date \in Dates :
            /\ ManagerMonitor(directory, date) =>
                 /\ PathKind(directory) = "none" =>
                       (result' = "FileNotFoundError" /\ db' = db)
                 /\ PathKind(directory) = "file" =>
                       (result' = "NotADirectoryError" /\ db' = db)
                 /\ (PathKind(directory) = "dir" /\ directory \in DOMAIN db) =>
                       (result' = "FileExistsError" /\ db' = db)
                 /\ (PathKind(directory) = "dir" /\ directory \notin DOMAIN db) =>
                       /\ result' = "monitored"
                       /\ DOMAIN db' = DOMAIN db \cup {directory}
                       /\ \A key \in DOMAIN db : db'[key] = db[key]
                       /\ unmonitored(db', directory) = db
            /\ (ManagerUnmonitor(directory) /\ directory \in DOMAIN db) =>
                 /\ result' = "unmonitored"
                 /\ db' = unmonitored(db, directory)
                 /\ directory \notin DOMAIN db']_vars

\* C16: monitor has failed on a key of a registry that holds it, next to
\* another key
C16_Witness ==
    /\ result = "FileExistsError"
    /\ DOMAIN db = {"temp", "/w/temp"}

\* C17: a check that decides not to commit leaves the last commit state, the
\* version log, the snapshot copies and the working directory as they were,
\* and with them the decision of every later check
C17_SkippedCheckChangesNothing ==
    [][(mpc = "idle" /\ spc = "idle") =>
        \A now \in Times, checksum \in Checksums :
            (RunStart(now, checksum) /\ ~should_backup(now, checksum)) =>
                /\ UNCHANGED <<last, versions, snapshots, tree>>
                /\ \A later \in Times, other \in Checksums :
                      should_backup(later, other)' = should_backup(later, other)]_vars

\* C17: a check has decided not to commit, and the working directory holds a
\* file that the last commit did not find
C17_Witness ==
    /\ result = "skipped"
    /\ mpc = "idle"
    /\ last.time = 0
    /\ tree[<<"F">>] = "file"
    /\ last.name \in DOMAIN snapshots
    /\ snapshots[last.name][<<"F">>] = "none"
    /\ committed[last.name][<<"F">>] = "none"

\* C18: a removal leaves the working directory, the last commit state and
\* the snapshot directories as they were, those of the removed records too;
\* when it has removed the record of the last commit, no check of the
\* checksum of that record commits
C18_RemoveChangesOnlyLog ==
    [][(mpc = "idle" /\ spc = "idle" /\ mpc' = "idle" /\ result' # "skipped") =>
        \A commit \in Prefixes, order \in Orders(DOMAIN versions) :
            Remove(commit, order) =>
                /\ UNCHANGED <<tree, last, snapshots>>
                /\ DOMAIN versions \subseteq DOMAIN snapshots'
                /\ (last.name \in DOMAIN versions /\ last.name \notin DOMAIN versions') =>
                      \A now \in LogTimes, checksum \in Checksums :
                          checksum = versions[last.name].checksum =>
                              ~(should_backup(now, checksum))']_vars

\* C18: the record of the last commit has been removed, its snapshot
\* directory is there, and the log holds another record
C18_Witness ==
    /\ result \in {"removed", "removed several"}
    /\ last.name \notin DOMAIN versions
    /\ last.name \in DOMAIN snapshots
    /\ DOMAIN versions # {}

\* C19: every commit after the first is at least frequency seconds later
\* than the commit before it; with a frequency of a second or more, a commit
\* finds no record and no version directory of its name, and adds one record
\* to the version log
C19_CommitsApartAndNamesNew ==
    [][/\ (mpc = "idle" /\ mpc' = "backup" /\ last # EmptyShelf) =>
             last'.time - last.time >= frequency * TicksPerSecond
       /\ (frequency >= 1 /\ mpc = "backup") =>
             /\ cur.name \notin DOMAIN versions
             /\ cur.name \notin DOMAIN snapshots
             /\ Cardinality(DOMAIN versions') = Cardinality(DOMAIN versions) + 1
       /\ frequency >= 1 => result' # "DuplicateVersion"]_vars

\* C19: with a frequency of one second, three commits have left three records
C19_Witness ==
    /\ frequency >= 1
    /\ result = "committed"
    /\ ~removed
    /\ Cardinality(DOMAIN versions) = 3

\* the last commit state is the record of the version log with the greatest
\* time
LastIsGreatest ==
    /\ last.name \in DOMAIN versions
    /\ versions[last.name] =
         [time |-> last.time, checksum |-> last.checksum, name |-> last.name]
    /\ \A key \in DOMAIN versions \ {last.name} : versions[key].time < last.time

\* C20: every commit after the first has a checksum that differs from the
\* one the last commit state held, and stores it in its record; when a commit
\* has stored its record and no record was removed since, the last commit
\* state is the record of the version log with the greatest time
C20_CommitsDifferAndLastIsGreatest ==
    /\ [][/\ (mpc = "idle" /\ mpc' = "backup" /\ last # EmptyShelf) =>
                 (last'.checksum # last.checksum /\ cur'.checksum = last'.checksum)
          /\ mpc = "backup" =>
                 (cur.name \in DOMAIN versions' /\ versions'[cur.name].checksum = cur.checksum)]_vars
    /\ []((last # EmptyShelf /\ mpc # "backup" /\ ~removed) => LastIsGreatest)

\* C20: a commit has ended after an earlier removal, and the log holds more
\* than one record
C20_Witness ==
    /\ result = "committed"
    /\ ~removed
    /\ Cardinality(DOMAIN versions) = 2
    /\ Cardinality(DOMAIN snapshots) = 3
    /\ LastIsGreatest

\* a directory less its metadata directory
WithoutMeta(dir) == [dir EXCEPT ![MetaDir] = "none"]

\* the tick of the pair has committed and the apply of the pair has ended
PairOver == pair.run = "done" /\ pair.apply = "done"

\* the snapshot the tick stored is a copy neither of the working directory as
\* it was when the apply started nor of the directory of the applied version
SnapshotOfNeither ==
    /\ PairOver
    /\ snapshots[pair.taken] # WithoutMeta(pair.before)
    /\ snapshots[pair.taken] # pair.applied

\* C21: a tick and an apply on one working directory: a snapshot that is a
\* copy neither of the directory before the apply nor of the applied version
\* is stored only when their file operations are interleaved, never when the
\* two run one after the other, in either order
C21_SnapshotOfNeitherOnlyInterleaved ==
    SnapshotOfNeither => pair.mode = "interleaved"

\* C22: a stop() called while the loop is running ends the loop at its next
\* test, a start() of a second process before that test or not; and after a
\* stop() and a start() the loop that was asked to stop does not go on
\* beside the loop of the second process
C22_StopNotLostToStart ==
    /\ [][(asked \in {"stop", "stop, start"} /\ dpc = "test" /\ dpc' # "test")
            => dpc' = "off"]_vars
    /\ [](asked = "lost" => ~(dpc # "off" /\ dpc2 # "off"))

====
